---- MODULE Spec2Model ----
(***************************************************************************)
(* Scheduling and delivery core of whatsapp-scheduler:                     *)
(*   - the scheduled_messages table (models/schedule.py),                  *)
(*   - the schedule endpoints (api/schedules.py),                          *)
(*   - the Celery tasks send_scheduled_message and                         *)
(*     check_scheduled_messages (tasks/whatsapp_tasks.py).                 *)
(* Every database commit is one atomic step.  The gateway, the broker and  *)
(* the clock are the environment.                                          *)
(***************************************************************************)
EXTENDS Integers, Sequences, FiniteSets, TLC

\* ---------------------------------------------------------------- bounds
\* scheduled sends ever created (ids 1..NumSends)
NumSends == 2
\* delivery jobs ever enqueued (task ids 1..MaxJobs)
MaxJobs == 2
\* recipients in the group
MaxRecipients == 2
\* clock resolution: ticks per second (instants between whole seconds exist)
Second == 2

\* ------------------------------------------------------- program constants
\* errors[:5]
MaxErrors == 5
\* timedelta(minutes=5)
StuckMinutes == 5

Minute == 60 * Second
StuckDelta == StuckMinutes * Minute

\* Column values
None == 0
NoTime == -1
Absent == [status |-> "absent"]

Ids == 1 .. NumSends
Recipients == 1 .. MaxRecipients

NoError == [kind |-> "none", failed |-> << >>]
NoRecipientsError == [kind |-> "no_recipients", failed |-> << >>]
SystemError == [kind |-> "system_error", failed |-> << >>]

NoResp == [op |-> "none", id |-> 0, code |-> 0]

VARIABLES
    store,      \* scheduled_messages table: id -> row or Absent
    nextId,     \* next primary key of scheduled_messages
    group,      \* group.recipients of the recipient group, in listed order
    now,        \* datetime.now(timezone.utc), in ticks
    jobs,       \* send_scheduled_message jobs by task id (index)
    inflight,   \* send_now requests between .delay() and db.commit()
    sweep,      \* the running check_scheduled_messages task
    resp,       \* HTTP response of the step just taken (NoResp otherwise)
    task_db     \* self._db of the send_scheduled_message task instances

vars == << store, nextId, group, now, jobs, inflight, sweep, resp, task_db >>

\* ------------------------------------------------------------------ helpers
Min(a, b) == IF a < b THEN a ELSE b

Present(id) == store[id] # Absent

\* datetime.replace(microsecond=0)
TruncSecond(t) == t - (t % Second)

\* ids of a set in ascending order (rows come back in primary-key order)
RECURSIVE SortedSeq(_)
SortedSeq(S) ==
    IF S = {} THEN << >>
    ELSE LET m == CHOOSE x \in S : \A y \in S : x <= y
         IN << m >> \o SortedSeq(S \ {m})

\* number of occurrences of x in sequence s
Count(s, x) == Cardinality({ i \in 1 .. Len(s) : s[i] = x })

\* ScheduledMessage(**schedule.dict()) with the column defaults
NewRow(sched) ==
    [ status |-> "pending", task_id |-> None, error_message |-> NoError,
      sent_at |-> NoTime, scheduled_time |-> sched ]

\* a job as created by send_scheduled_message.delay(id); the fields after
\* pc are the locals of the running task
NewJob(id) ==
    [ send |-> id, pc |-> "queued", recipients |-> << >>,
      success_count |-> 0, fail_count |-> 0, errors |-> << >>,
      calls |-> << >> ]

IdleSweep ==
    [ pc |-> "idle", outcome |-> "none", at |-> None, current_time |-> 0,
      overdue |-> << >>, stuck |-> << >>, k |-> 1, task |-> None,
      queued |-> << >> ]

\* scheduled_time values a client asks for: the first second, and one
\* minute before it
SchedTimes == { Second - Minute, Second }
\* instants of the clock around a scheduled time
ApiTimes == { 0, Second }
\* instants of the clock up to ten minutes after a scheduled time
SweepTimes == { 0, Second, StuckDelta + Second, 2 * StuckDelta + Second }
\* instants of the clock up to five minutes after a scheduled time
LiveTimes == { 0, Second, StuckDelta + Second }
Times == ApiTimes \cup SweepTimes

\* the memberships of the group: recipients are interchangeable, so one
\* list of each length
GroupLists == { [ i \in 1 .. n |-> i ] : n \in 0 .. MaxRecipients }

TypeOK ==
    /\ nextId \in 1 .. NumSends + 1
    /\ now \in Times
    /\ Len(jobs) <= MaxJobs
    /\ \A id \in Ids : store[id] = Absent \/ store[id].status \in
         { "pending", "sending", "sent", "partially_sent", "failed",
           "cancelled", "archived" }

\* ------------------------------------------------------------------- clock
Tick(T) ==
    /\ \E t \in T : t > now /\ now' = t
    /\ resp' = NoResp
    /\ UNCHANGED << store, nextId, group, jobs, inflight, sweep, task_db >>

\* -------------------------------------------------------- api/schedules.py
\* a validation that lets the present instant through
InFutureOrNow(sched, t) == sched >= t

\* "scheduled time must be in the future" (line 25)
InFuture(sched, t) == sched > t

\* a check of the referenced message only
ReferencesExistMessageOnly(message_ok, group_ok) == message_ok

\* the message and the group the request names exist (lines 14-22)
ReferencesExist(message_ok, group_ok) == message_ok /\ group_ok

\* POST /schedules/ ; message_ok and group_ok tell whether the message_id
\* and group_id of the request exist; now2 is the second reading of the
\* clock (line 34)
create_scheduled_message(message_ok, group_ok, sched, now2) ==
    /\ IF ~ReferencesExist(message_ok, group_ok)
       THEN /\ resp' = [op |-> "create", id |-> 0, code |-> 404]
            /\ UNCHANGED << store, nextId, jobs, now >>
       ELSE /\ now2 >= now
            /\ now' = now2
            /\ IF ~InFuture(sched, now)
               THEN /\ resp' = [op |-> "create", id |-> 0, code |-> 400]
                    /\ UNCHANGED << store, nextId, jobs >>
               ELSE /\ nextId <= NumSends
                    /\ nextId' = nextId + 1
                    /\ resp' = [op |-> "create", id |-> nextId,
                                code |-> 200]
                    /\ IF sched - now2 <= 0
                       THEN /\ Len(jobs) < MaxJobs
                            /\ jobs' = Append(jobs, NewJob(nextId))
                            /\ store' = [store EXCEPT ![nextId] =
                                 [NewRow(sched) EXCEPT
                                    !.task_id = Len(jobs) + 1]]
                       ELSE /\ store' = [store EXCEPT ![nextId] =
                                 NewRow(sched)]
                            /\ UNCHANGED jobs
    /\ UNCHANGED << group, inflight, sweep, task_db >>

\* a cancel guard that also lets failed sends through
CancelAllowedOrFailed(status) == status \in { "pending", "failed" }

\* a cancel guard that only refuses finished sends
CancelAllowedUnlessFinished(status) ==
    status \in { "pending", "sending" }

\* status guard of cancel (line 74)
CancelAllowed(status) == status = "pending"

\* PUT /schedules/{id}/cancel
cancel_scheduled_message(id) ==
    /\ IF ~Present(id)
       THEN /\ resp' = [op |-> "cancel", id |-> id, code |-> 404]
            /\ UNCHANGED store
       ELSE IF ~CancelAllowed(store[id].status)
       THEN /\ resp' = [op |-> "cancel", id |-> id, code |-> 400]
            /\ UNCHANGED store
       ELSE /\ store' = [store EXCEPT ![id].status = "cancelled"]
            /\ resp' = [op |-> "cancel", id |-> id, code |-> 200]
    /\ UNCHANGED << nextId, group, now, jobs, inflight, sweep, task_db >>

\* status guard of send-now (line 87)
SendNowAllowed(status) == status \in { "pending", "failed" }

\* POST /schedules/{id}/send-now, up to and including .delay() (lines 83-91)
send_now_enqueue(id) ==
    /\ IF ~Present(id)
       THEN /\ resp' = [op |-> "send_now", id |-> id, code |-> 404]
            /\ UNCHANGED << jobs, inflight >>
       ELSE IF ~SendNowAllowed(store[id].status)
       THEN /\ resp' = [op |-> "send_now", id |-> id, code |-> 400]
            /\ UNCHANGED << jobs, inflight >>
       ELSE /\ Len(jobs) < MaxJobs
            /\ jobs' = Append(jobs, NewJob(id))
            /\ inflight' = inflight \cup
                 { [send |-> id, seen |-> store[id].status,
                    task |-> Len(jobs) + 1] }
            /\ resp' = NoResp
    /\ UNCHANGED << store, nextId, group, now, sweep, task_db >>

\* POST /schedules/{id}/send-now, the assignments and db.commit()
\* (lines 92-96).  The UPDATE carries the attributes whose value differs
\* from the loaded one; on a vanished row the flush raises.
send_now_commit(r) ==
    /\ r \in inflight
    /\ inflight' = inflight \ {r}
    /\ IF ~Present(r.send)
       THEN /\ resp' = [op |-> "send_now", id |-> r.send, code |-> 500]
            /\ UNCHANGED store
       ELSE /\ store' = [store EXCEPT ![r.send] =
                 [@ EXCEPT !.task_id = r.task,
                           !.status = IF r.seen = "pending" THEN @
                                      ELSE "pending"]]
            /\ resp' = [op |-> "send_now", id |-> r.send, code |-> 200]
    /\ UNCHANGED << nextId, group, now, jobs, sweep, task_db >>

\* an archive guard that lets every status through
ArchiveAlways(status) == TRUE

\* status guard of archive (line 104)
ArchiveAllowed(status) == status # "archived"

\* PUT /schedules/{id}/archive
archive_scheduled_message(id) ==
    /\ IF ~Present(id)
       THEN /\ resp' = [op |-> "archive", id |-> id, code |-> 404]
            /\ UNCHANGED store
       ELSE IF ~ArchiveAllowed(store[id].status)
       THEN /\ resp' = [op |-> "archive", id |-> id, code |-> 400]
            /\ UNCHANGED store
       ELSE /\ store' = [store EXCEPT ![id].status = "archived"]
            /\ resp' = [op |-> "archive", id |-> id, code |-> 200]
    /\ UNCHANGED << nextId, group, now, jobs, inflight, sweep, task_db >>

\* a delete guard that only refuses a send in dispatch
DeleteAllowedUnlessSending(status) == status # "sending"

\* status guard of delete (line 117)
DeleteAllowed(status) ==
    status \in { "pending", "cancelled", "failed", "archived" }

\* DELETE /schedules/{id}
delete_scheduled_message(id) ==
    /\ IF ~Present(id)
       THEN /\ resp' = [op |-> "delete", id |-> id, code |-> 404]
            /\ UNCHANGED store
       ELSE IF ~DeleteAllowed(store[id].status)
       THEN /\ resp' = [op |-> "delete", id |-> id, code |-> 400]
            /\ UNCHANGED store
       ELSE /\ store' = [store EXCEPT ![id] = Absent]
            /\ resp' = [op |-> "delete", id |-> id, code |-> 200]
    /\ UNCHANGED << nextId, group, now, jobs, inflight, sweep, task_db >>

\* ------------------------------------------------------- api/recipients.py
\* PUT /recipients/groups/{group_id}/recipients: the group's members become
\* the existing recipients among recipient_ids
update_group_recipients(recipient_ids) ==
    /\ group' = SortedSeq(recipient_ids \cap Recipients)
    /\ resp' = [op |-> "update_group", id |-> 0, code |-> 200]
    /\ UNCHANGED << store, nextId, now, jobs, inflight, sweep, task_db >>

\* ------------------------------------------------------ services/whatsapp.py
\* what happens to the HTTP request of one gateway call: it succeeds, the
\* connection fails, it times out, the gateway answers an error status, or
\* something other than a requests exception is raised
GatewayEvents ==
    { "ok", "connection_error", "timeout", "http_error", "other_exception" }

\* the exceptions that are subclasses of requests' RequestException
RequestExceptions == { "connection_error", "timeout", "http_error" }

\* a gateway call that catches connection errors only
send_messageCatchingConnectionError(event) ==
    IF event = "ok" THEN "ok"
    ELSE IF event = "connection_error" THEN "fail"
    ELSE "raise"

\* WhatsAppService.send_message (lines 56-92): the result the worker sees,
\* success, a failure result, or an exception
send_message(event) ==
    IF event = "ok" THEN "ok"
    ELSE IF event \in RequestExceptions THEN "fail"
    ELSE "raise"

\* ------------------------------------- tasks/whatsapp_tasks.py: the worker
\* the aggregate without the empty-group branch
FinalStatusNoEmptyCheck(n, success_count, fail_count) ==
    IF fail_count = 0 THEN "sent"
    ELSE IF success_count = 0 THEN "failed"
    ELSE "partially_sent"

\* aggregate status (lines 103-115)
FinalStatus(n, success_count, fail_count) ==
    IF n = 0 THEN "failed"
    ELSE IF fail_count = 0 /\ success_count > 0 THEN "sent"
    ELSE IF success_count = 0 THEN "failed"
    ELSE "partially_sent"

\* a join of all the errors
JoinErrorsAll(errors) == [ kind |-> "failures", failed |-> errors ]

\* "; ".join(errors[:5]) (line 119); an error text names its recipient
JoinErrors(errors) ==
    [ kind |-> "failures",
      failed |-> SubSeq(errors, 1, Min(MaxErrors, Len(errors))) ]

\* the final commit without the no-recipients text
FinalErrorNoEmptyCheck(old, n, errors) ==
    IF errors # << >> THEN JoinErrors(errors) ELSE old

\* the error_message the final commit leaves (lines 103-105, 118-119)
FinalError(old, n, errors) ==
    IF errors # << >> THEN JoinErrors(errors)
    ELSE IF n = 0 THEN NoRecipientsError
    ELSE old

\* a recipient loop that stops at the first failed call
LoopContinuesUntilFailure(job) ==
    Len(job.calls) < Len(job.recipients) /\ job.fail_count = 0

\* the for loop over group.recipients has a next recipient (line 78)
LoopContinues(job) == Len(job.calls) < Len(job.recipients)

\* a job whose run has ended: the locals are gone
Ended(job, pc) == [NewJob(job.send) EXCEPT !.pc = pc]

\* an except block that re-raises without writing
ExceptHandlerReraiseOnly(id) == store

\* the except block (lines 128-135): mark failed, commit, re-raise
ExceptHandler(id) ==
    IF Present(id)
    THEN [store EXCEPT ![id].status = "failed",
                       ![id].error_message = SystemError]
    ELSE store

\* the task instance of a worker process, as a run sees it: db is self._db,
\* made counts the SessionLocal() calls of the run, closed holds the
\* sessions that were closed
NoSession == << >>

\* SessionLocal() in run j: a session no other call returns
SessionLocal(inst, j) == << j, inst.made + 1 >>

\* the instance a run j finds in a process whose self._db is d
Instance(d, j) ==
    [ db |-> d, made |-> task_db.made[j], closed |-> task_db.closed ]

\* the db property (lines 32-36): the instance after self.db was read
db(inst, j) ==
    IF inst.db = NoSession
    THEN [inst EXCEPT !.db = SessionLocal(inst, j), !.made = @ + 1]
    ELSE inst

\* an after_return that closes the session and keeps it in self._db
after_returnNoReset(inst) ==
    IF inst.db # NoSession
    THEN [inst EXCEPT !.closed = @ \cup { inst.db }]
    ELSE inst

\* after_return (lines 38-41)
after_return(inst) ==
    IF inst.db # NoSession
    THEN [inst EXCEPT !.closed = @ \cup { inst.db }, !.db = NoSession]
    ELSE inst

\* run j goes on in its process with the instance inst
Holds(j, inst) ==
    task_db' = [task_db EXCEPT !.of[j] = inst.db,
                               !.made[j] = inst.made,
                               !.closed = inst.closed]

\* run j has returned or raised: Celery calls after_return and the process
\* is idle again
Returns(j, inst) ==
    LET after == after_return(inst) IN
    task_db' = [task_db EXCEPT !.of[j] = NoSession,
                               !.made[j] = after.made,
                               !.closed = after.closed,
                               !.idle = @ \cup { after.db }]

\* the instances once the jobs js have run as far as they did
InstancesOf(js) ==
    [ of |-> [ j \in 1 .. MaxJobs |->
                 IF j <= Len(js) /\ js[j].pc = "sending"
                 THEN << j, 1 >> ELSE NoSession ],
      made |-> [ j \in 1 .. MaxJobs |->
                 IF j <= Len(js) /\ js[j].pc \in
                      { "sending", "done", "raised", "not_found", "killed" }
                 THEN 1 ELSE 0 ],
      closed |-> { << j, 1 >> : j \in { i \in 1 .. Len(js) :
                      js[i].pc \in { "done", "raised", "not_found" } } },
      idle |-> { NoSession } ]

\* the members of the group when the sends of InitGroup were created
CreationGroup == << 1 >>

\* a start that sends to the members the group had at creation
WorkerStartCapturedGroup(j) ==
    /\ j \in 1 .. Len(jobs)
    /\ jobs[j].pc = "queued"
    /\ \E d \in task_db.idle :
       LET id == jobs[j].send
           inst == db(Instance(d, j), j)
       IN
       IF ~Present(id)
       THEN /\ jobs' = [jobs EXCEPT ![j] = Ended(@, "not_found")]
            /\ UNCHANGED store
            /\ Returns(j, inst)
       ELSE /\ store' = [store EXCEPT ![id].status = "sending"]
            /\ jobs' = [jobs EXCEPT ![j].pc = "sending",
                                    ![j].recipients = CreationGroup]
            /\ Holds(j, inst)
    /\ resp' = NoResp
    /\ UNCHANGED << nextId, group, now, inflight, sweep >>

\* a start that leaves the row as it is until the final commit
WorkerStartNoCommit(j) ==
    /\ j \in 1 .. Len(jobs)
    /\ jobs[j].pc = "queued"
    /\ \E d \in task_db.idle :
       LET id == jobs[j].send
           inst == db(Instance(d, j), j)
       IN
       IF ~Present(id)
       THEN /\ jobs' = [jobs EXCEPT ![j] = Ended(@, "not_found")]
            /\ Returns(j, inst)
       ELSE /\ jobs' = [jobs EXCEPT ![j].pc = "sending",
                                    ![j].recipients = group]
            /\ Holds(j, inst)
    /\ resp' = NoResp
    /\ UNCHANGED << store, nextId, group, now, inflight, sweep >>

\* a start without the not-found return: the missing row makes the
\* assignment of "sending" raise
WorkerStartNoReturn(j) ==
    /\ j \in 1 .. Len(jobs)
    /\ jobs[j].pc = "queued"
    /\ \E d \in task_db.idle :
       LET id == jobs[j].send
           inst == db(Instance(d, j), j)
       IN
       IF ~Present(id)
       THEN /\ jobs' = [jobs EXCEPT ![j] = Ended(@, "raised")]
            /\ UNCHANGED store
            /\ Returns(j, inst)
       ELSE /\ store' = [store EXCEPT ![id].status = "sending"]
            /\ jobs' = [jobs EXCEPT ![j].pc = "sending",
                                    ![j].recipients = group]
            /\ Holds(j, inst)
    /\ resp' = NoResp
    /\ UNCHANGED << nextId, group, now, inflight, sweep >>

\* the job is taken from the queue: load the row, commit "sending",
\* resolve group.recipients (lines 50-71)
WorkerStart(j) ==
    /\ j \in 1 .. Len(jobs)
    /\ jobs[j].pc = "queued"
    /\ \E d \in task_db.idle :
       LET id == jobs[j].send
           inst == db(Instance(d, j), j)
       IN
       IF ~Present(id)
       THEN /\ jobs' = [jobs EXCEPT ![j] = Ended(@, "not_found")]
            /\ UNCHANGED store
            /\ Returns(j, inst)
       ELSE /\ store' = [store EXCEPT ![id].status = "sending"]
            /\ jobs' = [jobs EXCEPT ![j].pc = "sending",
                                    ![j].recipients = group]
            /\ Holds(j, inst)
    /\ resp' = NoResp
    /\ UNCHANGED << nextId, group, now, inflight, sweep >>

\* a loop body whose failure branch starts the count of successes again
WorkerSendResetOnFailure(j, outcome) ==
    /\ j \in 1 .. Len(jobs)
    /\ jobs[j].pc = "sending"
    /\ LoopContinues(jobs[j])
    /\ LET job == jobs[j]
           recipient == job.recipients[Len(job.calls) + 1]
       IN CASE outcome = "ok" ->
                 /\ jobs' = [jobs EXCEPT
                        ![j].success_count = @ + 1,
                        ![j].calls = Append(@, outcome)]
                 /\ UNCHANGED << store, task_db >>
            [] outcome = "fail" ->
                 /\ jobs' = [jobs EXCEPT
                        ![j].fail_count = @ + 1,
                        ![j].success_count = 0,
                        ![j].errors = Append(@, recipient),
                        ![j].calls = Append(@, outcome)]
                 /\ UNCHANGED << store, task_db >>
            [] outcome = "raise" ->
                 /\ jobs' = [jobs EXCEPT ![j] = Ended(@, "raised")]
                 /\ store' = ExceptHandler(job.send)
                 /\ Returns(j, db(Instance(task_db.of[j], j), j))
    /\ resp' = NoResp
    /\ UNCHANGED << nextId, group, now, inflight, sweep >>

\* one iteration of the recipient loop (lines 78-98); the gateway call
\* returns success, returns a failure, or raises
WorkerSend(j, outcome) ==
    /\ j \in 1 .. Len(jobs)
    /\ jobs[j].pc = "sending"
    /\ LoopContinues(jobs[j])
    /\ LET job == jobs[j]
           recipient == job.recipients[Len(job.calls) + 1]
       IN CASE outcome = "ok" ->
                 /\ jobs' = [jobs EXCEPT
                        ![j].success_count = @ + 1,
                        ![j].calls = Append(@, outcome)]
                 /\ UNCHANGED << store, task_db >>
            [] outcome = "fail" ->
                 /\ jobs' = [jobs EXCEPT
                        ![j].fail_count = @ + 1,
                        ![j].errors = Append(@, recipient),
                        ![j].calls = Append(@, outcome)]
                 /\ UNCHANGED << store, task_db >>
            [] outcome = "raise" ->
                 /\ jobs' = [jobs EXCEPT ![j] = Ended(@, "raised")]
                 /\ store' = ExceptHandler(job.send)
                 /\ Returns(j, db(Instance(task_db.of[j], j), j))
    /\ resp' = NoResp
    /\ UNCHANGED << nextId, group, now, inflight, sweep >>

\* a final commit that leaves a status another job has already concluded
WorkerFinishUnlessFinal(j) ==
    /\ j \in 1 .. Len(jobs)
    /\ jobs[j].pc = "sending"
    /\ ~LoopContinues(jobs[j])
    /\ LET job == jobs[j]
           id == job.send
       IN IF ~Present(id)
          THEN /\ jobs' = [jobs EXCEPT ![j] = Ended(@, "raised")]
               /\ store' = ExceptHandler(id)
               /\ Returns(j, db(Instance(task_db.of[j], j), j))
          ELSE /\ jobs' = [jobs EXCEPT ![j] = Ended(@, "done")]
               /\ Returns(j, db(Instance(task_db.of[j], j), j))
               /\ store' = [store EXCEPT ![id] =
                    [@ EXCEPT
                       !.status = IF @ = "sending"
                                  THEN FinalStatus(Len(job.recipients),
                                     job.success_count, job.fail_count)
                                  ELSE @,
                       !.sent_at = now,
                       !.error_message = FinalError(@,
                                     Len(job.recipients), job.errors)]]
    /\ resp' = NoResp
    /\ UNCHANGED << nextId, group, now, inflight, sweep >>

\* after the loop: aggregate, sent_at, error_message, commit (lines
\* 103-126).  On a vanished row the flush raises and the except block runs.
WorkerFinish(j) ==
    /\ j \in 1 .. Len(jobs)
    /\ jobs[j].pc = "sending"
    /\ ~LoopContinues(jobs[j])
    /\ LET job == jobs[j]
           id == job.send
       IN IF ~Present(id)
          THEN /\ jobs' = [jobs EXCEPT ![j] = Ended(@, "raised")]
               /\ store' = ExceptHandler(id)
               /\ Returns(j, db(Instance(task_db.of[j], j), j))
          ELSE /\ jobs' = [jobs EXCEPT ![j] = Ended(@, "done")]
               /\ Returns(j, db(Instance(task_db.of[j], j), j))
               /\ store' = [store EXCEPT ![id] =
                    [@ EXCEPT
                       !.status = FinalStatus(Len(job.recipients),
                                     job.success_count, job.fail_count),
                       !.sent_at = now,
                       !.error_message = FinalError(@,
                                     Len(job.recipients), job.errors)]]
    /\ resp' = NoResp
    /\ UNCHANGED << nextId, group, now, inflight, sweep >>

\* the worker process is killed during the recipient loop, as the hard
\* time limit does (celery_app.py, task_time_limit): the run ends without
\* a further commit and without after_return, and a new process with a new
\* task instance takes its place
WorkerKill(j) ==
    /\ j \in 1 .. Len(jobs)
    /\ jobs[j].pc = "sending"
    /\ jobs' = [jobs EXCEPT ![j] = Ended(@, "killed")]
    /\ task_db' = [task_db EXCEPT !.of[j] = NoSession,
                                  !.idle = @ \cup { NoSession }]
    /\ resp' = NoResp
    /\ UNCHANGED << store, nextId, group, now, inflight, sweep >>

\* a first query without the condition on scheduled_time
OverdueMessagesAnyTime(current_time) ==
    SortedSeq({ id \in Ids :
        /\ Present(id)
        /\ store[id].status = "pending"
        /\ store[id].task_id = None })

\* -------------------------------------- tasks/whatsapp_tasks.py: the sweep
\* first query (lines 142-150)
OverdueMessages(current_time) ==
    SortedSeq({ id \in Ids :
        /\ Present(id)
        /\ store[id].status = "pending"
        /\ store[id].scheduled_time <= current_time
        /\ store[id].task_id = None })

\* the second query looking for rows stuck in "sending"
StuckMessagesSending(stuck_time) ==
    SortedSeq({ id \in Ids :
        /\ Present(id)
        /\ store[id].status = "sending"
        /\ store[id].scheduled_time <= stuck_time
        /\ store[id].task_id # None })

\* a second query for rows scheduled strictly before stuck_time
StuckMessagesStrictlyOlder(stuck_time) ==
    SortedSeq({ id \in Ids :
        /\ Present(id)
        /\ store[id].status = "pending"
        /\ store[id].scheduled_time < stuck_time
        /\ store[id].task_id # None })

\* second query (lines 166-171)
StuckMessages(stuck_time) ==
    SortedSeq({ id \in Ids :
        /\ Present(id)
        /\ store[id].status = "pending"
        /\ store[id].scheduled_time <= stuck_time
        /\ store[id].task_id # None })

\* the list the running loop iterates over; in an ended run, outcome tells
\* how it ended and at the send at which it raised
SweepList == IF sweep.pc = "overdue" THEN sweep.overdue ELSE sweep.stuck

\* beat starts a run: read the clock, run the first query
SweepQueryOverdue ==
    /\ sweep.pc = "idle"
    /\ sweep' = [IdleSweep EXCEPT !.pc = "overdue",
                                  !.current_time = now,
                                  !.overdue = OverdueMessages(now)]
    /\ resp' = NoResp
    /\ UNCHANGED << store, nextId, group, now, jobs, inflight, task_db >>

\* send_scheduled_message.delay(id) in either loop (lines 156-160,
\* 176-178).  The row object is expired after the previous commit of the
\* run, so reading it reloads the row and raises if the row is gone; the
\* broker may refuse the job.  Either error ends the run (lines 182-184).
SweepDelay(ok) ==
    /\ sweep.pc \in { "overdue", "stuck" }
    /\ sweep.task = None
    /\ sweep.k <= Len(SweepList)
    /\ LET id == SweepList[sweep.k] IN
       IF (sweep.k > 1 /\ ~Present(id)) \/ ~ok
       THEN /\ sweep' = [sweep EXCEPT !.pc = "idle", !.outcome = "raised",
                                      !.at = id]
            /\ UNCHANGED jobs
       ELSE /\ Len(jobs) < MaxJobs
            /\ jobs' = Append(jobs, NewJob(id))
            /\ sweep' = [sweep EXCEPT !.task = Len(jobs) + 1,
                                      !.queued = Append(@, id)]
    /\ resp' = NoResp
    /\ UNCHANGED << store, nextId, group, now, inflight, task_db >>

\* a commit whose UPDATE writes the status the query saw along with task_id
SweepCommitWritingStatus ==
    /\ sweep.pc \in { "overdue", "stuck" }
    /\ sweep.task # None
    /\ LET id == SweepList[sweep.k] IN
       IF ~Present(id)
       THEN /\ sweep' = [sweep EXCEPT !.pc = "idle", !.outcome = "raised",
                                      !.at = id, !.task = None]
            /\ UNCHANGED store
       ELSE /\ store' = [store EXCEPT ![id].task_id = sweep.task,
                                      ![id].status = "pending"]
            /\ sweep' = [sweep EXCEPT !.k = @ + 1, !.task = None]
    /\ resp' = NoResp
    /\ UNCHANGED << nextId, group, now, jobs, inflight, task_db >>

\* task_id = task.id ; db.commit() (lines 161-162, 179-180); on a
\* vanished row the flush raises and the run ends
SweepCommit ==
    /\ sweep.pc \in { "overdue", "stuck" }
    /\ sweep.task # None
    /\ LET id == SweepList[sweep.k] IN
       IF ~Present(id)
       THEN /\ sweep' = [sweep EXCEPT !.pc = "idle", !.outcome = "raised",
                                      !.at = id, !.task = None]
            /\ UNCHANGED store
       ELSE /\ store' = [store EXCEPT ![id].task_id = sweep.task]
            /\ sweep' = [sweep EXCEPT !.k = @ + 1, !.task = None]
    /\ resp' = NoResp
    /\ UNCHANGED << nextId, group, now, jobs, inflight, task_db >>

\* after the overdue loop: second clock reading and query (lines 166-171)
SweepQueryStuck ==
    /\ sweep.pc = "overdue"
    /\ sweep.task = None
    /\ sweep.k > Len(sweep.overdue)
    /\ sweep' = [sweep EXCEPT
          !.pc = "stuck", !.k = 1,
          !.stuck = StuckMessages(TruncSecond(now) - StuckDelta)]
    /\ resp' = NoResp
    /\ UNCHANGED << store, nextId, group, now, jobs, inflight, task_db >>

\* the run returns
SweepReturn ==
    /\ sweep.pc = "stuck"
    /\ sweep.task = None
    /\ sweep.k > Len(sweep.stuck)
    /\ sweep' = [sweep EXCEPT !.pc = "idle", !.outcome = "returned"]
    /\ resp' = NoResp
    /\ UNCHANGED << store, nextId, group, now, jobs, inflight, task_db >>

\* the store is unreachable when the run makes its first query (lines
\* 146-150) or its second (lines 167-171): the query raises and the run
\* ends (lines 182-184)
SweepQueryFails ==
    /\ \/ /\ sweep.pc = "idle"
          /\ sweep' = [IdleSweep EXCEPT !.outcome = "raised",
                                        !.current_time = now]
       \/ /\ sweep.pc = "overdue"
          /\ sweep.task = None
          /\ sweep.k > Len(sweep.overdue)
          /\ sweep' = [sweep EXCEPT !.pc = "idle", !.outcome = "raised"]
    /\ resp' = NoResp
    /\ UNCHANGED << store, nextId, group, now, jobs, inflight, task_db >>

\* the store is unreachable at db.commit() in either loop (lines 162,
\* 180): the commit raises after the job was enqueued, and the run ends
SweepCommitFails ==
    /\ sweep.pc \in { "overdue", "stuck" }
    /\ sweep.task # None
    /\ sweep' = [sweep EXCEPT !.pc = "idle", !.outcome = "raised",
                              !.at = SweepList[sweep.k], !.task = None]
    /\ resp' = NoResp
    /\ UNCHANGED << store, nextId, group, now, jobs, inflight, task_db >>

\* ---------------------------------------------------------- specification
Create ==
    \E message_ok \in BOOLEAN, group_ok \in BOOLEAN,
       sched \in SchedTimes, now2 \in ApiTimes :
        create_scheduled_message(message_ok, group_ok, sched, now2)
Cancel == \E id \in Ids : cancel_scheduled_message(id)
SendNowEnqueue == \E id \in Ids : send_now_enqueue(id)
SendNowCommit == \E r \in inflight : send_now_commit(r)
Archive == \E id \in Ids : archive_scheduled_message(id)
Delete == \E id \in Ids : delete_scheduled_message(id)

Start == \E j \in 1 .. MaxJobs : WorkerStart(j)
Send == \E j \in 1 .. MaxJobs, event \in GatewayEvents :
            WorkerSend(j, send_message(event))
Finish == \E j \in 1 .. MaxJobs : WorkerFinish(j)

Delay == \E ok \in BOOLEAN : SweepDelay(ok)

Kill == \E j \in 1 .. MaxJobs : WorkerKill(j)

UpdateGroup == \E ids \in SUBSET Recipients : update_group_recipients(ids)

\* The whole system.
Init ==
    /\ store = [ id \in Ids |-> Absent ]
    /\ nextId = 1
    /\ group \in GroupLists
    /\ now = 0
    /\ jobs = << >>
    /\ inflight = {}
    /\ sweep = IdleSweep
    /\ resp = NoResp
    /\ task_db = InstancesOf(jobs)

Next ==
    \/ Tick(Times)
    \/ Create \/ Cancel \/ SendNowEnqueue \/ SendNowCommit
    \/ Archive \/ Delete
    \/ UpdateGroup
    \/ Start \/ Send \/ Finish \/ Kill
    \/ SweepQueryOverdue \/ Delay \/ SweepCommit \/ SweepQueryStuck
    \/ SweepReturn \/ SweepQueryFails \/ SweepCommitFails

Spec == Init /\ [][Next]_vars

\* The requests and the workers on the last send the table can hold:
\* earlier ids were used and deleted, and the one job enqueued for them
\* found no row.  Beat is not running, and the clock advances between the
\* two readings of create.
InitApi ==
    /\ store = [ id \in Ids |-> Absent ]
    /\ nextId = NumSends
    /\ group \in GroupLists
    /\ now = 0
    /\ jobs = << Ended(NewJob(1), "not_found") >>
    /\ inflight = {}
    /\ sweep = IdleSweep
    /\ resp = NoResp
    /\ task_db = InstancesOf(jobs)

NextApi ==
    \/ Create \/ Cancel \/ SendNowEnqueue \/ SendNowCommit
    \/ Archive \/ Delete
    \/ Start \/ Send \/ Finish

SpecApi == InitApi /\ [][NextApi]_vars

\* One send whose delivery jobs run one after the other: a job starts only
\* when every job enqueued before it has ended.
InitRedelivery ==
    /\ store = [ id \in Ids |->
                   IF id = NumSends THEN NewRow(Second) ELSE Absent ]
    /\ nextId = NumSends + 1
    /\ group \in GroupLists
    /\ now = 0
    /\ jobs = << >>
    /\ inflight = {}
    /\ sweep = IdleSweep
    /\ resp = NoResp
    /\ task_db = InstancesOf(jobs)

StartInTurn ==
    \E j \in 1 .. Len(jobs) :
        /\ \A i \in 1 .. j - 1 :
              jobs[i].pc \in { "done", "raised", "not_found" }
        /\ WorkerStart(j)

NextRedelivery ==
    \/ Tick(ApiTimes)
    \/ SendNowEnqueue \/ SendNowCommit
    \/ StartInTurn \/ Send \/ Finish

SpecRedelivery == InitRedelivery /\ [][NextRedelivery]_vars

\* A due pending send for which send-now has enqueued a delivery job and
\* recorded its handle; the job races with cancel and delete.
InitQueued ==
    /\ store = [ id \in Ids |->
                   IF id = NumSends
                   THEN [NewRow(Second) EXCEPT !.task_id = 1]
                   ELSE Absent ]
    /\ nextId = NumSends + 1
    /\ group \in GroupLists
    /\ now = Second
    /\ jobs = << NewJob(NumSends) >>
    /\ inflight = {}
    /\ sweep = IdleSweep
    /\ resp = NoResp
    /\ task_db = InstancesOf(jobs)

NextQueued ==
    \/ Cancel \/ Delete
    \/ Start \/ Send \/ Finish

SpecQueued == InitQueued /\ [][NextQueued]_vars

\* Beat and the workers on sends that were created and never dispatched:
\* every send is pending, without handle, scheduled at the first second;
\* the group has one recipient.
InitSweep ==
    /\ store = [ id \in Ids |-> NewRow(Second) ]
    /\ nextId = NumSends + 1
    /\ group = << 1 >>
    /\ now = Second
    /\ jobs = << >>
    /\ inflight = {}
    /\ sweep = IdleSweep
    /\ resp = NoResp
    /\ task_db = InstancesOf(jobs)

NextSweep ==
    \/ Tick(SweepTimes)
    \/ SweepQueryOverdue \/ Delay \/ SweepCommit \/ SweepQueryStuck
    \/ SweepReturn
    \/ Start \/ Send \/ Finish
    \/ Delete

SpecSweep == InitSweep /\ [][NextSweep]_vars

DelayOk == SweepDelay(TRUE)

\* Beat and the workers on sends that were created and never dispatched,
\* with a store that may be unreachable at any query or commit of the sweep.
NextOutage ==
    \/ Tick(SweepTimes)
    \/ SweepQueryOverdue \/ Delay \/ SweepCommit \/ SweepQueryStuck
    \/ SweepReturn \/ SweepQueryFails \/ SweepCommitFails
    \/ Start \/ Send \/ Finish

SpecOutage == InitSweep /\ [][NextOutage]_vars

\* instants of the clock around five minutes after the first second
StuckTimes ==
    { StuckDelta + Second, StuckDelta + Second + 1, StuckDelta + 2 * Second }

\* Beat, the workers and cancel on one pending send whose handle is
\* recorded and whose job is still queued; it was scheduled at the first
\* second or at the instant after it, between two whole seconds, and has
\* just become due.
InitStuck ==
    /\ \E sched \in { Second, Second + 1 } :
          store = [ id \in Ids |->
                      IF id = NumSends
                      THEN [NewRow(sched) EXCEPT !.task_id = 1]
                      ELSE Absent ]
    /\ nextId = NumSends + 1
    /\ group = << 1 >>
    /\ now = Second + 1
    /\ jobs = << NewJob(NumSends) >>
    /\ inflight = {}
    /\ sweep = IdleSweep
    /\ resp = NoResp
    /\ task_db = InstancesOf(jobs)

NextStuck ==
    \/ Tick(StuckTimes)
    \/ SweepQueryOverdue \/ Delay \/ SweepCommit \/ SweepQueryStuck
    \/ SweepReturn
    \/ Start \/ Send \/ Finish
    \/ Cancel

SpecStuck == InitStuck /\ [][NextStuck]_vars

\* A due send created while the group was CreationGroup, with its job
\* queued; the membership of the group is edited while the job waits and
\* runs.
InitGroup ==
    /\ store = [ id \in Ids |->
                   IF id = NumSends
                   THEN [NewRow(Second) EXCEPT !.task_id = 1]
                   ELSE Absent ]
    /\ nextId = NumSends + 1
    /\ group = CreationGroup
    /\ now = Second
    /\ jobs = << NewJob(NumSends) >>
    /\ inflight = {}
    /\ sweep = IdleSweep
    /\ resp = NoResp
    /\ task_db = InstancesOf(jobs)

NextGroup == UpdateGroup \/ Start \/ Send \/ Finish

SpecGroup == InitGroup /\ [][NextGroup]_vars

\* a group with one recipient more than error_message lists
BatchGroup == [ i \in 1 .. MaxErrors + 1 |-> i ]

\* One queued delivery job for a due send whose group is BatchGroup.
InitBatch ==
    /\ store = [ id \in Ids |->
                   IF id = NumSends
                   THEN [NewRow(Second) EXCEPT !.task_id = 1]
                   ELSE Absent ]
    /\ nextId = NumSends + 1
    /\ group = BatchGroup
    /\ now = Second
    /\ jobs = << NewJob(NumSends) >>
    /\ inflight = {}
    /\ sweep = IdleSweep
    /\ resp = NoResp
    /\ task_db = InstancesOf(jobs)

NextBatch == Start \/ Send \/ Finish

SpecBatch == InitBatch /\ [][NextBatch]_vars

\* Beat, the workers and the clock keep running on one send that is
\* pending and not yet due.  Either no job was ever enqueued for it, or its
\* handle is recorded and the job was lost before a worker took it (a
\* recorded handle with the job still queued is what a run of the sweep
\* leaves).  The group has one
\* recipient.  The broker accepts every job; the user may cancel, archive
\* or delete.
InitLive ==
    /\ \E h \in { "none", "lost" } :
          /\ store = [ id \in Ids |->
                IF id # NumSends THEN Absent
                ELSE IF h = "none" THEN NewRow(Second)
                ELSE [NewRow(Second) EXCEPT !.task_id = 1] ]
          /\ jobs = IF h = "none" THEN << >>
                    ELSE << [NewJob(NumSends) EXCEPT !.pc = h] >>
    /\ nextId = NumSends + 1
    /\ group = << 1 >>
    /\ now = 0
    /\ inflight = {}
    /\ sweep = IdleSweep
    /\ resp = NoResp
    /\ task_db = InstancesOf(jobs)

SweepStep ==
    \/ SweepQueryOverdue \/ DelayOk \/ SweepCommit \/ SweepQueryStuck
    \/ SweepReturn

WorkerStep == Start \/ Send \/ Finish

NextLive ==
    \/ Tick(LiveTimes)
    \/ SweepStep
    \/ WorkerStep
    \/ Cancel \/ Archive \/ Delete

\* beat fires every 10 seconds (celery_app.py), a started task runs on, and
\* the workers take every queued job
SpecLive ==
    /\ InitLive
    /\ [][NextLive]_vars
    /\ WF_vars(Tick(LiveTimes))
    /\ WF_vars(SweepStep)
    /\ WF_vars(WorkerStep)

\* Beat, the workers and the clock keep running on one due pending send
\* whose handle is recorded and whose job is queued; a worker may be killed
\* while it runs a job.  The broker accepts every job.
InitStalled ==
    /\ store = [ id \in Ids |->
                   IF id = NumSends
                   THEN [NewRow(Second) EXCEPT !.task_id = 1]
                   ELSE Absent ]
    /\ nextId = NumSends + 1
    /\ group = << 1 >>
    /\ now = Second
    /\ jobs = << NewJob(NumSends) >>
    /\ inflight = {}
    /\ sweep = IdleSweep
    /\ resp = NoResp
    /\ task_db = InstancesOf(jobs)

NextStalled ==
    \/ Tick(SweepTimes)
    \/ SweepStep
    \/ WorkerStep
    \/ Kill

\* beat fires every 10 seconds, a started sweep runs on and the workers
\* take every queued job; a kill may or may not happen
SpecStalled ==
    /\ InitStalled
    /\ [][NextStalled]_vars
    /\ WF_vars(Tick(SweepTimes))
    /\ WF_vars(SweepStep)
    /\ WF_vars(WorkerStep)

\* Two queued delivery jobs, one for each of two due sends to the same
\* group of MaxRecipients recipients.
PairGroup == [ i \in 1 .. MaxRecipients |-> i ]

InitPair ==
    /\ store = [ id \in Ids |->
                   IF id >= NumSends - 1
                   THEN [NewRow(Second) EXCEPT !.task_id = id - NumSends + 2]
                   ELSE Absent ]
    /\ nextId = NumSends + 1
    /\ group = PairGroup
    /\ now = Second
    /\ jobs = << NewJob(NumSends - 1), NewJob(NumSends) >>
    /\ inflight = {}
    /\ sweep = IdleSweep
    /\ resp = NoResp
    /\ task_db = InstancesOf(jobs)

NextPair == Start \/ Send \/ Finish

SpecPair == InitPair /\ [][NextPair]_vars

\* Create, beat and the workers before and at the first second: the send
\* before the last id is pending for the first second, the last id is free
\* for a create, and send-now is never asked.
InitEarly ==
    /\ store = [ id \in Ids |->
                   IF id = NumSends - 1 THEN NewRow(Second) ELSE Absent ]
    /\ nextId = NumSends
    /\ group = << 1 >>
    /\ now = 0
    /\ jobs = << >>
    /\ inflight = {}
    /\ sweep = IdleSweep
    /\ resp = NoResp
    /\ task_db = InstancesOf(jobs)

NextEarly ==
    \/ Tick(ApiTimes)
    \/ Create
    \/ SweepStep
    \/ WorkerStep

SpecEarly == InitEarly /\ [][NextEarly]_vars

\* Send-now, beat and the workers on one pending send without a handle,
\* before and at its scheduled time.
InitManual ==
    /\ store = [ id \in Ids |->
                   IF id = NumSends THEN NewRow(Second) ELSE Absent ]
    /\ nextId = NumSends + 1
    /\ group = << 1 >>
    /\ now = 0
    /\ jobs = << >>
    /\ inflight = {}
    /\ sweep = IdleSweep
    /\ resp = NoResp
    /\ task_db = InstancesOf(jobs)

NextManual ==
    \/ Tick(ApiTimes)
    \/ SendNowEnqueue \/ SendNowCommit
    \/ SweepStep
    \/ WorkerStep

SpecManual == InitManual /\ [][NextManual]_vars

\* Two queued delivery jobs for the same due send, as two enqueues of the
\* send leave them; the workers take them in any order and at any pace.
InitTwin ==
    /\ store = [ id \in Ids |->
                   IF id = NumSends
                   THEN [NewRow(Second) EXCEPT !.task_id = 2]
                   ELSE Absent ]
    /\ nextId = NumSends + 1
    /\ group = PairGroup
    /\ now = Second
    /\ jobs = << NewJob(NumSends), NewJob(NumSends) >>
    /\ inflight = {}
    /\ sweep = IdleSweep
    /\ resp = NoResp
    /\ task_db = InstancesOf(jobs)

NextTwin == Start \/ Send \/ Finish

SpecTwin == InitTwin /\ [][NextTwin]_vars

\* ------------------------------------------------------------------ claims
Ended_pcs == { "done", "raised", "not_found" }
FinalStatuses == { "sent", "partially_sent", "failed" }

\* the recipients whose gateway call returned a failure, in call order
FailedOf(job) ==
    LET idx == SortedSeq({ i \in 1 .. Len(job.calls) : job.calls[i] = "fail" })
    IN [ k \in 1 .. Len(idx) |-> job.recipients[idx[k]] ]

\* the aggregate the lifecycle rules give for a list of gateway outcomes
Aggregate(calls) ==
    IF calls = << >> THEN "failed"
    ELSE IF \A i \in 1 .. Len(calls) : calls[i] = "ok" THEN "sent"
    ELSE IF \A i \in 1 .. Len(calls) : calls[i] = "fail" THEN "failed"
    ELSE "partially_sent"

\* job j ends its run normally in this step
Completes(j) == WorkerFinish(j) /\ jobs'[j].pc = "done"

C5_FrozenOnceCancelledOrArchived ==
    [][ \A id \in Ids :
           ( Present(id) /\ store[id].status \in { "cancelled", "archived" } )
           => ( store'[id] = Absent \/ store'[id] = store[id] ) ]_vars

\* the transitions of the lifecycle
ListedTransition(a, b) ==
    \/ a = "pending" /\ b = "sending"
    \/ a = "sending" /\ b \in FinalStatuses
    \/ a = "pending" /\ b = "cancelled"
    \/ a \in FinalStatuses \cup { "cancelled" } /\ b = "archived"
    \/ a = "failed" /\ b = "pending"

\* C6: every change of a send's status is a listed transition; in
\* particular `sending` is entered only from `pending`.
C6_OnlyListedTransitions ==
    [][ \A id \in Ids :
           ( /\ Present(id)
             /\ store'[id] # Absent
             /\ store'[id].status # store[id].status )
           => ListedTransition(store[id].status, store'[id].status) ]_vars

\* C7: cancel answers 200 and sets `cancelled` iff the status is
\* `pending`, 400 without any change for every other status, 404 for an
\* absent id.
C7_CancelIffPending ==
    [][ \A id \in Ids :
           ( resp'.op = "cancel" /\ resp'.id = id )
           => /\ resp'.code = 200 <=>
                    ( Present(id) /\ store[id].status = "pending" )
              /\ resp'.code = 400 <=>
                    ( Present(id) /\ store[id].status # "pending" )
              /\ resp'.code = 404 <=> ~Present(id)
              /\ resp'.code = 200 =>
                    store' = [store EXCEPT ![id].status = "cancelled"]
              /\ resp'.code # 200 => store' = store ]_vars

C7_Witness ==
    /\ resp.op = "cancel"
    /\ resp.code = 400
    /\ Present(resp.id)
    /\ store[resp.id].status = "sent"

FreshError(job) ==
    IF FailedOf(job) # << >>
    THEN [ kind |-> "failures",
           failed |-> SubSeq(FailedOf(job), 1,
                             Min(MaxErrors, Len(FailedOf(job)))) ]
    ELSE IF job.recipients = << >> THEN NoRecipientsError
    ELSE NoError

\* C9: a run that follows a completed run of the same send leaves status,
\* error_message and sent_at as a single fresh dispatch with its own gateway
\* outcomes would.
C9_RedeliveryLikeFresh ==
    [][ \A j \in 1 .. MaxJobs :
           Completes(j) =>
              LET id == jobs[j].send IN
              /\ store'[id].status = Aggregate(jobs[j].calls)
              /\ store'[id].sent_at = now
              /\ store'[id].error_message = FreshError(jobs[j]) ]_vars

\* the elements of a sequence
Range(q) == { q[i] : i \in 1 .. Len(q) }

TenMinutes == 10 * Minute

\* the ids that hold a row under SpecLive, which creates none
LiveIds == { NumSends }

\* C3: a send that is pending and due eventually is `sent`,
\* `partially_sent` or `failed`, unless it is cancelled, archived or
\* deleted, whether or not a handle was recorded for it.
C3_EventualDelivery ==
    \A id \in LiveIds :
        ( Present(id) /\ store[id].status = "pending"
          /\ store[id].scheduled_time <= now )
        ~> ( \/ store[id] = Absent
             \/ store[id].status \in FinalStatuses
             \/ store[id].status \in { "cancelled", "archived" } )

C3_Witness ==
    \E id \in Ids :
        /\ Present(id)
        /\ store[id].status \in FinalStatuses
        /\ Len(jobs) >= 2
        /\ jobs[1].pc = "lost"
        /\ Count(sweep.queued, id) >= 1

\* C4: a run of the sweep that found a pending send without handle,
\* scheduled ten minutes before the run, and returned, has enqueued exactly
\* one delivery job for it and left task_id at a job of that send.
C4_ExactlyOneDispatch ==
    ( sweep.pc = "idle" /\ sweep.outcome = "returned" ) =>
       \A id \in Range(sweep.overdue) :
          ( Present(id)
            /\ sweep.current_time - store[id].scheduled_time = TenMinutes )
          => /\ Count(sweep.queued, id) = 1
             /\ store[id].task_id # None
             /\ jobs[store[id].task_id].send = id

\* C10: when a run of the sweep raised at one send, every other send the
\* run had found was still enqueued in that run and has its handle.
C10_ErrorDoesNotAbortBatch ==
    ( sweep.pc = "idle" /\ sweep.outcome = "raised" ) =>
       \A id \in Range(sweep.overdue) \cup Range(sweep.stuck) :
          id # sweep.at =>
             /\ Count(sweep.queued, id) >= 1
             /\ Present(id) => store[id].task_id # None

\* C11: a run whose group resolved to no recipient makes no gateway call,
\* and when it ends the row (if it still exists) is `failed` with the
\* no-recipients text; with an empty group no row is ever `sent` or
\* `partially_sent`.
C11_EmptyGroupFails ==
    [][ /\ \A j \in 1 .. Len(jobs) :
             ( jobs[j].pc = "sending" /\ jobs[j].recipients = << >> )
             => /\ jobs[j].calls = << >>
                /\ ~WorkerSend(j, "ok") /\ ~WorkerSend(j, "fail")
                /\ ~WorkerSend(j, "raise")
                /\ ( /\ jobs'[j].pc \in Ended_pcs
                     /\ store'[jobs[j].send] # Absent )
                   => /\ store'[jobs[j].send].status = "failed"
                      /\ store'[jobs[j].send].error_message
                            = NoRecipientsError
        /\ group = << >> =>
             \A id \in Ids :
                store'[id] = Absent
                \/ store'[id].status \notin { "sent", "partially_sent" }
      ]_vars

C11_Witness ==
    /\ group = << >>
    /\ \E j \in 1 .. Len(jobs) :
          /\ jobs[j].pc = "done"
          /\ Present(jobs[j].send)
          /\ store[jobs[j].send].status = "failed"
          /\ store[jobs[j].send].error_message = NoRecipientsError
          /\ store[jobs[j].send].sent_at # NoTime

\* C12: a failed call does not end the recipient loop: a run that completes
\* has called the gateway once for every recipient of the resolved group,
\* and the failures it recorded are the failed recipients in the group's
\* order; each call is for the recipient after the last one called.
C12_FailureDoesNotStopFanOut ==
    [][ \A j \in 1 .. Len(jobs) :
           /\ Completes(j) =>
                 /\ Len(jobs[j].calls) = Len(jobs[j].recipients)
                 /\ jobs[j].errors = FailedOf(jobs[j])
                 /\ jobs[j].success_count + jobs[j].fail_count
                       = Len(jobs[j].recipients)
           /\ WorkerSend(j, "fail") =>
                 /\ jobs'[j].pc = "sending"
                 /\ Len(jobs'[j].calls) = Len(jobs[j].calls) + 1
                 /\ jobs'[j].errors = Append(jobs[j].errors,
                       jobs[j].recipients[Len(jobs[j].calls) + 1]) ]_vars

C12_Witness ==
    \E j \in 1 .. Len(jobs) :
        /\ jobs[j].pc = "sending"
        /\ Len(jobs[j].recipients) = 2
        /\ jobs[j].calls = << "fail", "ok" >>
        /\ jobs[j].errors = << jobs[j].recipients[1] >>

\* C13: after a run the error_message lists at most five failures; after a
\* run that completed with failures it lists the first five failed
\* recipients (all of them when fewer) in the order they were tried.
C13_AtMostFiveErrors ==
    [][ \A j \in 1 .. Len(jobs) :
           LET id == jobs[j].send
               F == FailedOf(jobs[j])
           IN ( /\ jobs[j].pc = "sending"
                /\ jobs'[j].pc \in Ended_pcs
                /\ store'[id] # Absent )
              => LET e == store'[id].error_message.failed IN
                 /\ Len(e) <= 5
                 /\ ( Completes(j) /\ F # << >> )
                    => /\ Len(e) = Min(5, Len(F))
                       /\ \A k \in 1 .. Len(e) : e[k] = F[k] ]_vars

C13_Witness ==
    /\ Len(group) = 6
    /\ \E j \in 1 .. Len(jobs) :
          /\ jobs[j].pc = "done"
          /\ store[jobs[j].send].status = "failed"
          /\ store[jobs[j].send].error_message.kind = "failures"
          /\ store[jobs[j].send].error_message.failed = << 1, 2, 3, 4, 5 >>

\* C14: a run that ends, by returning or by raising, and leaves the row
\* `sent`, `partially_sent` or `failed` has set sent_at to the time at
\* which it ended.
C14_SentAtWhenConcluded ==
    [][ \A j \in 1 .. Len(jobs) :
           LET id == jobs[j].send IN
           ( /\ jobs[j].pc = "sending"
             /\ jobs'[j].pc \in Ended_pcs
             /\ store'[id] # Absent
             /\ store'[id].status \in FinalStatuses )
           => store'[id].sent_at = now ]_vars

\* C15: send-now on an absent id answers 404 and on a status other than
\* `pending` and `failed` answers 400, in both cases enqueuing nothing and
\* changing no row; on `pending` or `failed` it enqueues exactly one job
\* for the send, and its commit answers 200 and leaves the row `pending`
\* with task_id equal to the handle of that job.
C15_SendNow ==
    [][ /\ \A id \in Ids :
             send_now_enqueue(id) =>
                /\ ~Present(id) =>
                      /\ resp'.code = 404
                      /\ jobs' = jobs /\ store' = store
                /\ ( Present(id)
                     /\ store[id].status \notin { "pending", "failed" } ) =>
                      /\ resp'.code = 400
                      /\ jobs' = jobs /\ store' = store
                /\ ( Present(id)
                     /\ store[id].status \in { "pending", "failed" } ) =>
                      jobs' = Append(jobs, NewJob(id))
        /\ \A r \in inflight :
             send_now_commit(r) =>
                /\ resp'.code = 200
                /\ store'[r.send] # Absent
                /\ store'[r.send].status = "pending"
                /\ store'[r.send].task_id = r.task
                /\ jobs[r.task].send = r.send ]_vars

\* C16: a create whose scheduled_time is not after the time of the request
\* answers 400, persists no row, uses no id and enqueues no job; a create
\* whose scheduled_time is after it is accepted.
C16_CreateRejectsPast ==
    [][ \A sched \in SchedTimes, now2 \in ApiTimes :
           create_scheduled_message(TRUE, TRUE, sched, now2) =>
              /\ sched <= now =>
                    /\ resp'.code = 400
                    /\ store' = store
                    /\ nextId' = nextId
                    /\ jobs' = jobs
              /\ sched > now =>
                    /\ resp'.code = 200
                    /\ store[resp'.id] = Absent
                    /\ store'[resp'.id].scheduled_time = sched
                    /\ store'[resp'.id].status = "pending" ]_vars

\* a create was rejected at the first second, after the send created
\* before it
C16_Witness ==
    /\ resp = [op |-> "create", id |-> 0, code |-> 400]
    /\ now = Second
    /\ nextId = NumSends + 1
    /\ Present(NumSends)
    /\ store[NumSends].status = "pending"

\* C17: a create whose scheduled_time is one minute before the time of the
\* request is accepted and enqueues a delivery job for the new send in the
\* same request, recording its handle.
C17_DueCreateDispatches ==
    [][ \A sched \in SchedTimes, now2 \in ApiTimes :
           ( create_scheduled_message(TRUE, TRUE, sched, now2)
             /\ sched = now - Minute )
           => /\ resp'.code = 200
              /\ jobs' = Append(jobs, NewJob(resp'.id))
              /\ store'[resp'.id].task_id = Len(jobs') ]_vars

\* the sends a run re-enqueues in its second loop, given the instant the
\* five minutes are counted back from
StuckAt(t) ==
    { id \in Ids :
        /\ Present(id)
        /\ store[id].status = "pending"
        /\ store[id].task_id # None
        /\ store[id].scheduled_time <= t - StuckDelta }

\* the second loop of a run, for the instants FromTime gives: the second
\* query selects every send in StuckAt(FromTime(now)); for a selected send
\* whose row is there the loop enqueues a new job, whatever became of the
\* job of the recorded handle, and commits the new handle in place of the
\* old one; a run that returns has done so for every selected send.
StuckLoop(FromTime(_)) ==
    /\ SweepQueryStuck =>
          StuckAt(FromTime(now)) \subseteq Range(sweep'.stuck)
    /\ ( sweep.pc = "stuck" /\ SweepDelay(TRUE)
         /\ Present(sweep.stuck[sweep.k]) )
       => /\ jobs' = Append(jobs, NewJob(sweep.stuck[sweep.k]))
          /\ sweep'.task = Len(jobs')
    /\ ( sweep.pc = "stuck" /\ SweepCommit
         /\ Present(sweep.stuck[sweep.k]) )
       => /\ store'[sweep.stuck[sweep.k]].task_id = sweep.task
          /\ store'[sweep.stuck[sweep.k]].task_id
                # store[sweep.stuck[sweep.k]].task_id
          /\ jobs[sweep.task].send = sweep.stuck[sweep.k]
    /\ SweepReturn =>
          \A id \in Range(sweep.stuck) :
             /\ Count(sweep.queued, id) >= 1
             /\ Present(id) => jobs[store[id].task_id].send = id

NoneDue ==
    \A id \in Ids :
       ~( Present(id) /\ store[id].status = "pending"
          /\ store[id].scheduled_time <= now )

\* C19: whenever the sweep enqueues a delivery job, the send it is for is
\* `pending` and its scheduled_time is not in the future; a query made
\* when no pending send is due finds nothing to enqueue.
C19_SweepOnlyPendingDue ==
    [][ /\ SweepDelay(TRUE) =>
             LET id == SweepList[sweep.k] IN
             /\ Present(id)
             /\ store[id].status = "pending"
             /\ store[id].scheduled_time <= now
        /\ ( SweepQueryOverdue /\ NoneDue ) => sweep'.overdue = << >>
        /\ ( SweepQueryStuck /\ NoneDue ) => sweep'.stuck = << >> ]_vars

\* C20: a job whose send has no row when the job starts ends at once
\* without raising, has made no gateway call and leaves every row as it
\* was; no later step of that job exists.
C20_MissingRowIsNoOp ==
    [][ \A j \in 1 .. Len(jobs) :
           /\ ( jobs[j].pc = "queued" /\ jobs'[j] # jobs[j]
                /\ ~Present(jobs[j].send) )
              => /\ jobs'[j].pc = "not_found"
                 /\ jobs'[j].calls = << >>
                 /\ store' = store
           /\ jobs[j].pc = "not_found" => jobs'[j] = jobs[j] ]_vars

\* the send was deleted while its job was queued, and the job has run
C20_Witness ==
    /\ store[NumSends] = Absent
    /\ Len(jobs) = 1
    /\ jobs[1].send = NumSends /\ jobs[1].pc = "not_found"

\* C21: delete answers 200 and removes the row iff the status is
\* `pending`, `cancelled`, `failed` or `archived`; for `sent`,
\* `partially_sent` and `sending` it answers 400 and every row stays as it
\* is; for an absent id it answers 404.
C21_DeleteIffDeletable ==
    [][ \A id \in Ids :
           ( resp'.op = "delete" /\ resp'.id = id )
           => /\ resp'.code = 200 <=>
                    ( Present(id) /\ store[id].status \in
                        { "pending", "cancelled", "failed", "archived" } )
              /\ resp'.code = 400 <=>
                    ( Present(id) /\ store[id].status \in
                        { "sent", "partially_sent", "sending" } )
              /\ resp'.code = 404 <=> ~Present(id)
              /\ resp'.code = 200 =>
                    store' = [store EXCEPT ![id] = Absent]
              /\ resp'.code # 200 => store' = store
              /\ jobs' = jobs ]_vars

C21_Witness ==
    /\ resp.op = "delete"
    /\ resp.code = 400
    /\ Present(resp.id)
    /\ store[resp.id].status = "partially_sent"

\* C22: archive answers 200 and sets `archived` iff the row exists and is
\* not `archived`; on an archived send it answers 400 and changes nothing,
\* so an archive that directly follows a successful archive of the same
\* send is rejected.
C22_ArchiveOnce ==
    [][ \A id \in Ids :
           ( resp'.op = "archive" /\ resp'.id = id )
           => /\ resp'.code = 200 <=>
                    ( Present(id) /\ store[id].status # "archived" )
              /\ resp'.code = 400 <=>
                    ( Present(id) /\ store[id].status = "archived" )
              /\ resp'.code = 404 <=> ~Present(id)
              /\ resp'.code = 200 =>
                    store' = [store EXCEPT ![id].status = "archived"]
              /\ resp'.code # 200 => store' = store
              /\ ( resp = [op |-> "archive", id |-> id, code |-> 200] )
                    => resp'.code = 400 ]_vars

C22_Witness ==
    /\ resp.op = "archive"
    /\ resp.code = 400
    /\ Present(resp.id)
    /\ store[resp.id].status = "archived"
    /\ store[resp.id].sent_at # NoTime

\* C23: a run resolves the recipients when it starts: they are the members
\* the group has at that step, whatever they were when the send was
\* created; the run keeps that list while the membership is edited, and a
\* run that completes has called exactly that list.
C23_RecipientsAtDispatch ==
    [][ \A j \in 1 .. Len(jobs) :
           /\ ( jobs[j].pc = "queued" /\ jobs'[j].pc = "sending" )
              => jobs'[j].recipients = group
           /\ ( jobs[j].pc = "sending" /\ jobs'[j].pc = "sending" )
              => jobs'[j].recipients = jobs[j].recipients
           /\ Completes(j)
              => /\ Len(jobs[j].calls) = Len(jobs[j].recipients)
                 /\ jobs[j].errors = FailedOf(jobs[j]) ]_vars

\* recipient 2 was added and recipient 1 removed after the send was
\* created; the run called recipient 2 only, and the call failed
C23_Witness ==
    \E j \in 1 .. Len(jobs) :
        /\ jobs[j].pc = "sending"
        /\ jobs[j].recipients = << 2 >>
        /\ jobs[j].calls = << "fail" >>
        /\ jobs[j].errors = << 2 >>
        /\ group # << 2 >>

\* C24: a send that is `sending` while no job of it is queued or running
\* (its worker was killed) eventually is `sent`, `partially_sent` or
\* `failed`.
C24_NoSendStaysMidDispatch ==
    \A id \in LiveIds :
        ( /\ Present(id) /\ store[id].status = "sending"
          /\ \A j \in 1 .. Len(jobs) :
                jobs[j].send = id => jobs[j].pc \notin { "queued", "sending" } )
        ~> ( Present(id) /\ store[id].status \in FinalStatuses )

\* C25: a query of the sweep that finds the store unreachable ends the run
\* with the error re-raised, enqueues nothing and changes no row; and a run
\* that ended with an error leaves no send for which it enqueued a job
\* without a recorded handle.
C25_FailedSweepCorruptsNothing ==
    [][ /\ SweepQueryFails =>
             /\ sweep'.pc = "idle" /\ sweep'.outcome = "raised"
             /\ jobs' = jobs
             /\ store' = store
        /\ ( sweep'.pc = "idle" /\ sweep'.outcome = "raised" ) =>
             \A id \in Range(sweep'.queued) :
                store'[id] # Absent => store'[id].task_id # None ]_vars

\* C26: a create that names a message or a group that does not exist
\* answers 404, persists no row, uses no id and enqueues no job.  Every step
\* either is such an answer or is no create with a missing reference.
C26_CreateRejectsMissingReference ==
    [][ \/ /\ resp'.code = 404
           /\ store' = store
           /\ nextId' = nextId
           /\ jobs' = jobs
        \/ \A message_ok \in BOOLEAN, group_ok \in BOOLEAN,
              sched \in SchedTimes, now2 \in ApiTimes :
              ~( /\ ~( message_ok /\ group_ok )
                 /\ create_scheduled_message(message_ok, group_ok,
                                             sched, now2) ) ]_vars

\* a create was answered 404 while the table could still take a send and
\* the clock stood before the scheduled time
C26_Witness ==
    /\ resp = [op |-> "create", id |-> 0, code |-> 404]
    /\ nextId = NumSends
    /\ now < Second
    /\ \A id \in Ids : store[id] = Absent

C29_SessionPerRun ==
    [][ /\ task_db.idle = { NoSession }
        /\ \A j \in 1 .. Len(jobs) :
              /\ jobs[j].pc = "queued"
                 => task_db.of[j] = NoSession /\ task_db.made[j] = 0
              /\ jobs[j].pc = "sending"
                 => /\ task_db.of[j] = << j, 1 >>
                    /\ task_db.made[j] = 1
                    /\ task_db.of[j] \notin task_db.closed
              /\ ( jobs[j].pc \in { "queued", "sending" }
                   /\ jobs'[j].pc \in Ended_pcs )
                 => /\ task_db'.made[j] = 1
                    /\ << j, 1 >> \in task_db'.closed
                    /\ task_db'.of[j] = NoSession
                    /\ task_db'.idle = { NoSession } ]_vars

\* a second run has started after a first run ended, with the session of
\* the first run closed and its own session open
C29_Witness ==
    \E i, j \in 1 .. Len(jobs) :
       /\ jobs[i].pc = "done"
       /\ << i, 1 >> \in task_db.closed
       /\ jobs[j].pc = "sending"
       /\ task_db.of[j] = << j, 1 >>
       /\ Len(jobs[j].calls) > 0

\* the failed recipients a completed run recorded in the row
Recorded(row) ==
    IF row.error_message \in { NoError, NoRecipientsError, SystemError }
    THEN << >>
    ELSE row.error_message.failed

\* C30: two completed runs over the same recipients whose gateway calls
\* gave the same number of successes and of failures, in whatever order,
\* commit the same status; the order shows only in the failures that
\* error_message records.
C30_StatusIgnoresOrder ==
    [][ \A i, j \in 1 .. Len(jobs) :
           ( /\ Completes(i)
             /\ jobs[j].pc = "done"
             /\ Len(Recorded(store[jobs[j].send]))
                  = Count(jobs[i].calls, "fail") )
           => store'[jobs[i].send].status = store[jobs[j].send].status ]_vars

\* two completed runs with one success and one failure each, in opposite
\* orders: the same status and different recorded failures
C30_Witness ==
    /\ \A j \in 1 .. Len(jobs) : jobs[j].pc = "done"
    /\ store[NumSends - 1].status = "partially_sent"
    /\ store[NumSends].status = "partially_sent"
    /\ Recorded(store[NumSends - 1]) = << 1 >>
    /\ Recorded(store[NumSends]) = << 2 >>

\* C31: create and the sweep enqueue a job only for a send whose
\* scheduled_time has been reached, and while send-now is never asked no
\* gateway call is made for a send before its scheduled_time.
C31_NoEarlyDelivery ==
    [][ /\ Len(jobs') > Len(jobs)
           => LET id == jobs'[Len(jobs')].send IN
              /\ store'[id] # Absent
              /\ store'[id].scheduled_time <= now'
        /\ \A j \in 1 .. Len(jobs) :
              ( \E outcome \in { "ok", "fail", "raise" } :
                   WorkerSend(j, outcome) )
              => /\ Present(jobs[j].send)
                 /\ store[jobs[j].send].scheduled_time <= now ]_vars

\* a gateway call was made for the send that was created before its time
\* and picked up by the sweep
C31_Witness ==
    /\ \E j \in 1 .. Len(jobs) :
          /\ jobs[j].send = NumSends
          /\ jobs[j].calls # << >>
    /\ sweep.queued # << >>
    /\ Present(NumSends)
    /\ store[NumSends].task_id # None

\* C32: once a cancel has put a send in `cancelled`, no run of a delivery
\* job for that send has a gateway call behind it, whether the job was
\* enqueued before the cancel or not.
C32_NoCallAfterCancel ==
    \A id \in LiveIds :
       []( ( Present(id) /\ store[id].status = "cancelled" )
           => [] ( \A j \in 1 .. Len(jobs) :
                      jobs[j].send = id => jobs[j].calls = << >> ) )

\* C33: when the job that a send-now call enqueued has already run to its
\* end and committed a final status, the commit of that call leaves the
\* status as the job wrote it.
C33_SendNowKeepsFinalStatus ==
    [][ \A r \in inflight :
           ( /\ send_now_commit(r)
             /\ Present(r.send)
             /\ jobs[r.task].pc = "done"
             /\ store[r.send].status \in FinalStatuses )
           => store'[r.send].status = store[r.send].status ]_vars

\* C34: a send in `sending`, `sent` or `partially_sent` has a handle in
\* task_id.
C34_DispatchedHasHandle ==
    \A id \in Ids :
       ( Present(id)
         /\ store[id].status \in { "sending", "sent", "partially_sent" } )
       => store[id].task_id # None

\* C35: a step of check_scheduled_messages leaves every row as it is,
\* except that the commit after an enqueue writes the new handle into the
\* task_id of the send it enqueued and into nothing else.
C35_SweepWritesOnlyHandle ==
    [][ sweep' # sweep =>
        \A id \in Ids :
           \/ store'[id] = store[id]
           \/ /\ Present(id)
              /\ sweep.task # None
              /\ jobs[sweep.task].send = id
              /\ id = sweep.queued[Len(sweep.queued)]
              /\ store'[id] = [store[id] EXCEPT !.task_id = sweep.task] ]_vars

\* the sweep has re-enqueued a stuck send and recorded the new handle
\* while a job of that send was in its recipient loop
C35_Witness ==
    /\ sweep.pc = "stuck"
    /\ sweep.k > 1
    /\ \E id \in Range(sweep.stuck) :
          /\ Present(id)
          /\ store[id].task_id = Len(jobs)
          /\ store[id].status = "sending"

\* C36: the sweep enqueues no job for a send that is pending, has a handle
\* and was scheduled less than five minutes ago.
C36_NoReenqueueWithinThreshold ==
    [][ ( sweep' # sweep /\ Len(jobs') > Len(jobs) )
        => LET id == jobs'[Len(jobs')].send IN
           ~ ( /\ Present(id)
               /\ store[id].status = "pending"
               /\ store[id].task_id # None
               /\ now - store[id].scheduled_time < StuckDelta ) ]_vars

\* C37: a run that ends leaving the row in `failed` had no gateway call
\* that succeeded.
C37_FailedMeansNoneDelivered ==
    [][ \A j \in 1 .. Len(jobs) :
           ( /\ jobs[j].pc = "sending"
             /\ jobs'[j].pc \in { "done", "raised" }
             /\ store'[jobs[j].send] # Absent
             /\ store'[jobs[j].send].status = "failed" )
           => jobs[j].success_count = 0 ]_vars

\* C38: with two jobs of one send running side by side, a job that
\* completes leaves in the row the aggregate of its own gateway outcomes,
\* whatever the other job committed before, and once both jobs have ended
\* the row has a final status.
C38_LastCommitWins ==
    [][ /\ \A j \in 1 .. Len(jobs) :
              Completes(j) =>
                 /\ store'[NumSends].status = Aggregate(jobs[j].calls)
                 /\ store'[NumSends].status
                       = FinalStatus(Len(jobs[j].recipients),
                            jobs[j].success_count, jobs[j].fail_count)
        /\ ( \A j \in 1 .. Len(jobs) : jobs'[j].pc \in Ended_pcs )
           => store'[NumSends].status \in FinalStatuses ]_vars

\* both jobs have completed: the status is the one of the job that
\* committed last (every call succeeded), over the failure that the other
\* job recorded
C38_Witness ==
    /\ Len(jobs) = 2
    /\ \A j \in 1 .. 2 : jobs[j].pc = "done" /\ jobs[j].send = NumSends
    /\ store[NumSends].status = "sent"
    /\ Recorded(store[NumSends]) = << 1 >>

==============================================================================
